---- MODULE Spec2Model ----
(***************************************************************************)
(* Model of the altafsir acquisition-and-load pipeline:                    *)
(*   - the importer (import_altafsir_data.py, class AltafsirImporter),     *)
(*   - the crawl scheduler (scrape_altafsir_com.py, class AltafsirScraper),*)
(*   - the verse reference validator (config_utils.py).                    *)
(* Each part has its own specification over the module's variables.        *)
(***************************************************************************)
EXTENDS Integers, Sequences, FiniteSets, Bags, TLC

VARIABLES
    batch_size,          \* AltafsirImporter.batch_size
    quran_translations,  \* the verse table, a bag of rows
    tafsir_metadata,     \* the metadata table, a set of rows
    call,                \* the last import_tafsir_file call: arguments and results
    progress_file,       \* altafsir_progress.json on disk
    progress_data,       \* AltafsirScraper.progress_data in memory
    pc,                  \* position of the scraper process
    todo,                \* editions run_scraper still has to visit
    tafsir_info,         \* the edition being crawled
    chapter,             \* loop variable of scrape_complete_tafsir
    all_verses,          \* verses collected by the running scrape_complete_tafsir,
                         \* as runs <<chapter, first verse, last verse>>
    output,              \* the documents written by save_tafsir_data
    run,                 \* what the running process has done since it started
    vChapter,            \* argument of validate_verse_reference
    vVerse,              \* argument of validate_verse_reference
    vResult,             \* its results
    max_concurrent,      \* AltafsirScraper.max_concurrent
    max_retries,         \* argument of fetch_with_retry
    semaphore,           \* value of AltafsirScraper.semaphore
    fChapter,            \* argument of scrape_chapter
    tasks,               \* the verse tasks of the running scrape_chapter
    verses_data,         \* what scrape_chapter returned
    import_progress_file,  \* import_progress.json on disk
    import_progress_data,  \* AltafsirImporter.progress_data in memory
    rpc,                 \* position of the importer process in run_import
    tafsir_files,        \* the files the loop of run_import still has to visit
    args,                \* the arguments of the last run_import
    stats,               \* AltafsirImporter.stats
    import_log,          \* the import_log table, in insertion order
    steps,               \* what the last run_import did with each file it visited
    result,              \* what the last run_import returned
    runs,                \* number of importer processes started so far
    interrupted          \* the files whose import_tafsir_file was cut short by the
                         \* end of the process and that no later call has imported

importVars == <<batch_size, quran_translations, tafsir_metadata, call>>
crawlVars == <<progress_file, progress_data, pc, todo, tafsir_info, chapter,
               all_verses, output, run>>
validateVars == <<vChapter, vVerse, vResult>>
fetchVars == <<max_concurrent, max_retries, semaphore, fChapter, tasks, verses_data>>
runVars == <<import_progress_file, import_progress_data, rpc, tafsir_files, args,
             stats, import_log, steps, result, runs, interrupted>>
vars == <<batch_size, quran_translations, tafsir_metadata, call,
          progress_file, progress_data, pc, todo, tafsir_info, chapter,
          all_verses, output, run, vChapter, vVerse, vResult,
          max_concurrent, max_retries, semaphore, fChapter, tasks, verses_data,
          import_progress_file, import_progress_data, rpc, tafsir_files, args,
          stats, import_log, steps, result, runs, interrupted>>

(***************************************************************************)
(* Bounds of the model.                                                    *)
(***************************************************************************)
MaxBatchSize == 2
MinArg == 0 - 1
MaxChapterArg == 116
MaxVerseArg == 288
LastChapter == 2
MaxConcurrent == 2
MaxRuns == 2

(***************************************************************************)
(* Small helpers.                                                          *)
(***************************************************************************)
Range(s) == {s[i] : i \in DOMAIN s}

Min(S) == CHOOSE x \in S : \A y \in S : x <= y

(***************************************************************************)
(* The verse reference validator.                                          *)
(***************************************************************************)
VERSE_COUNTS == <<
    7, 286, 200, 176, 120, 165, 206, 75, 129, 109,
    123, 111, 43, 52, 99, 128, 111, 110, 98, 135,
    112, 78, 118, 64, 77, 227, 93, 88, 69, 60,
    34, 30, 73, 54, 45, 83, 182, 88, 75, 85,
    54, 53, 89, 59, 37, 35, 38, 29, 18, 45,
    60, 49, 62, 55, 78, 96, 29, 22, 24, 13,
    14, 11, 11, 18, 12, 12, 30, 52, 52, 44,
    28, 28, 20, 56, 40, 31, 50, 40, 46, 42,
    29, 19, 36, 25, 22, 17, 19, 26, 30, 20,
    15, 21, 11, 8, 8, 19, 5, 8, 8, 11,
    11, 8, 3, 9, 5, 4, 7, 3, 6, 3,
    5, 4, 5, 6 >>

\* The verse counts of AltafsirScraper.QURAN_CHAPTERS (the second component).
QURAN_CHAPTERS == <<
    7, 286, 200, 176, 120, 165, 206, 75, 129, 109,
    123, 111, 43, 52, 99, 128, 111, 110, 98, 135,
    112, 78, 118, 64, 77, 227, 93, 88, 69, 60,
    34, 30, 73, 54, 45, 83, 182, 88, 75, 85,
    54, 53, 89, 59, 37, 35, 38, 29, 18, 45,
    60, 49, 62, 55, 78, 96, 29, 22, 24, 13,
    14, 11, 11, 18, 12, 12, 30, 52, 52, 44,
    28, 28, 20, 56, 40, 31, 50, 40, 46, 42,
    29, 19, 36, 25, 22, 17, 19, 26, 30, 20,
    15, 21, 11, 8, 8, 19, 5, 8, 8, 11,
    11, 8, 3, 9, 5, 4, 7, 3, 6, 3,
    5, 4, 5, 6 >>

validate_verse_reference_clamped(chapter_, verse_) ==
    IF chapter_ < 1 \/ chapter_ > 114
    THEN FALSE
    ELSE verse_ <= VERSE_COUNTS[chapter_]

validate_verse_reference(chapter_, verse_) ==
    IF chapter_ < 1 \/ chapter_ > 114
    THEN FALSE
    ELSE IF chapter_ \notin DOMAIN VERSE_COUNTS
    THEN FALSE
    ELSE 1 <= verse_ /\ verse_ <= VERSE_COUNTS[chapter_]

\* A validator that takes verse 0 of a chapter.
scraper_validate_verse_reference_from_zero(chapter_, verse_) ==
    IF chapter_ < 1 \/ chapter_ > 114
    THEN FALSE
    ELSE 0 <= verse_ /\ verse_ <= QURAN_CHAPTERS[chapter_]

\* AltafsirScraper.validate_verse_reference
scraper_validate_verse_reference(chapter_, verse_) ==
    IF chapter_ < 1 \/ chapter_ > 114
    THEN FALSE
    ELSE IF chapter_ \notin DOMAIN QURAN_CHAPTERS
    THEN FALSE
    ELSE 1 <= verse_ /\ verse_ <= QURAN_CHAPTERS[chapter_]

(***************************************************************************)
(* Text: a string is a sequence of characters; str.strip() removes the     *)
(* leading and the trailing whitespace.                                    *)
(***************************************************************************)
Whitespace == {" ", "\t", "\n"}

RECURSIVE LStrip(_)
LStrip(t) ==
    IF t = <<>> THEN <<>>
    ELSE IF Head(t) \in Whitespace THEN LStrip(Tail(t)) ELSE t

RECURSIVE RStrip(_)
RStrip(t) ==
    IF t = <<>> THEN <<>>
    ELSE IF t[Len(t)] \in Whitespace THEN RStrip(SubSeq(t, 1, Len(t) - 1)) ELSE t

Strip(t) == RStrip(LStrip(t))

(***************************************************************************)
(* Verse keys: "<chapter>:<verse>", a string built by formatting the two   *)
(* numbers in decimal.                                                     *)
(***************************************************************************)
DigitChar == <<"0", "1", "2", "3", "4", "5", "6", "7", "8", "9">>

RECURSIVE ToStr(_)
ToStr(n) ==
    IF n < 10 THEN <<DigitChar[n + 1]>>
    ELSE ToStr(n \div 10) \o <<DigitChar[(n % 10) + 1]>>

FormatKeySwapped(chapter_, verse_) == ToStr(verse_) \o <<":">> \o ToStr(chapter_)

FormatKey(chapter_, verse_) == ToStr(chapter_) \o <<":">> \o ToStr(verse_)

\* The importer does not parse keys; what follows is the reading of a key that
\* the properties about key validation are stated with.
DigitValue(ch) == CHOOSE d \in 0..9 : DigitChar[d + 1] = ch

IsNumber(s) == s /= <<>> /\ \A i \in DOMAIN s : s[i] \in Range(DigitChar)

RECURSIVE ToInt(_)
ToInt(s) ==
    IF s = <<>> THEN 0
    ELSE 10 * ToInt(SubSeq(s, 1, Len(s) - 1)) + DigitValue(s[Len(s)])

\* The key parsed as "<chapter>:<verse>": exactly one colon between two numbers.
ParseKey(key) ==
    LET colons == {i \in DOMAIN key : key[i] = ":"}
    IN  IF Cardinality(colons) /= 1
        THEN [ok |-> FALSE, c |-> 0, n |-> 0]
        ELSE LET i == CHOOSE j \in colons : TRUE
                 left == SubSeq(key, 1, i - 1)
                 right == SubSeq(key, i + 1, Len(key))
             IN  IF IsNumber(left) /\ IsNumber(right)
                 THEN [ok |-> TRUE, c |-> ToInt(left), n |-> ToInt(right)]
                 ELSE [ok |-> FALSE, c |-> 0, n |-> 0]

\* A verse key the semantic validation of a document accepts.
ValidKey(key) ==
    /\ ParseKey(key).ok
    /\ validate_verse_reference(ParseKey(key).c, ParseKey(key).n)

(***************************************************************************)
(* Documents (the tafsir_*.json files): what json.load returns.  vs lists  *)
(* the entries of the "vs" object in file order.  The tf of an entry is a  *)
(* string, is absent, or is no string.                                     *)
(***************************************************************************)
Str(s) == [kind |-> "str", s |-> s]
NoTf == [kind |-> "missing", s |-> <<>>]
NotAString == [kind |-> "nonstring", s |-> <<>>]

VerseEntry(key, c, n, tf) == [key |-> key, c |-> c, n |-> n, tf |-> tf]

Verse(c, n, tf) == VerseEntry(FormatKey(c, n), c, n, tf)

TextA == <<"a">>
TextB == <<" ", "b", "\n">>

FullVs == << Verse(1, 1, Str(TextA)), Verse(1, 2, Str(TextA)), Verse(1, 3, Str(TextA)) >>

SampleVs == {
    <<>>,
    FullVs,
    << Verse(1, 1, Str(TextB)), VerseEntry(<<"f", "o", "o">>, 0, 0, Str(TextA)),
       Verse(1, 2, Str(<<" ", "\t">>)) >>,
    << Verse(1, 8, Str(TextA)), Verse(1, 3, Str(<<>>)), Verse(1, 2, NoTf),
       Verse(1, 1, NotAString) >> }

OtherVs == { << Verse(1, 1, Str(TextB)) >> }

Document(tid, vs) ==
    [json_ok |-> TRUE, top |-> {"meta", "chs", "vs"},
     meta_keys |-> {"tid", "tn", "lang", "au"}, vs_is_dict |-> TRUE,
     tid |-> tid, vs |-> vs]

ValidDocs ==
    {Document(1, vs) : vs \in SampleVs} \cup {Document(2, vs) : vs \in OtherVs}

BrokenDocs ==
    {[Document(1, FullVs) EXCEPT !.json_ok = FALSE],
     [Document(1, FullVs) EXCEPT !.vs_is_dict = FALSE]}
    \cup {[Document(1, FullVs) EXCEPT !.top = @ \ {k}] : k \in {"meta", "chs", "vs"}}
    \cup {[Document(2, FullVs) EXCEPT !.meta_keys = @ \ {k}] : k \in {"tid", "tn", "lang"}}

Docs == ValidDocs \cup BrokenDocs

(***************************************************************************)
(* The store.  quran_translations is a bag of rows: the table is declared  *)
(* UNIQUE(verse_key, translation_id) ON CONFLICT REPLACE, so an insert     *)
(* first deletes the rows that hold the same pair.                         *)
(***************************************************************************)
Row(verse_data, tid, text) ==
    [verse_key |-> verse_data.key, chapter_number |-> verse_data.c,
     verse_number |-> verse_data.n, translation_id |-> tid, text |-> text]

\* A uniqueness constraint that takes the text into the key.
SameKeyAndText(r1, r2) ==
    r1.verse_key = r2.verse_key /\ r1.translation_id = r2.translation_id
        /\ r1.text = r2.text

SameKey(r1, r2) ==
    r1.verse_key = r2.verse_key /\ r1.translation_id = r2.translation_id

\* An insert into a table without the conflict clause.
InsertPlain(table, row) == table (+) SetToBag({row})

InsertOrReplace(table, row) ==
    LET kept == {r \in BagToSet(table) : ~SameKey(r, row)}
    IN  [r \in kept |-> table[r]] (+) SetToBag({row})

RECURSIVE InsertMany(_, _)
InsertMany(table, rows) ==
    IF rows = <<>> THEN table
    ELSE InsertMany(InsertOrReplace(table, Head(rows)), Tail(rows))

RowCount(table) == BagCardinality(table)

RowsOf(table, tid) == {r \in BagToSet(table) : r.translation_id = tid}

HasRow(table, key, tid) ==
    \E r \in BagToSet(table) : r.verse_key = key /\ r.translation_id = tid

\* The part of the table that holds the given keys of an edition.
Slice(table, keys, tid) ==
    LET S == {r \in BagToSet(table) : r.translation_id = tid /\ r.verse_key \in keys}
    IN  [r \in S |-> table[r]]

(***************************************************************************)
(* AltafsirImporter                                                        *)
(***************************************************************************)
validate_tafsir_file_lax(doc) ==
    IF ~doc.json_ok THEN FALSE
    ELSE IF ~({"meta", "chs"} \subseteq doc.top) THEN FALSE
    ELSE TRUE

validate_tafsir_file(doc) ==
    IF ~doc.json_ok THEN FALSE
    ELSE IF ~({"meta", "chs", "vs"} \subseteq doc.top) THEN FALSE
    ELSE IF ~({"tid", "tn", "lang"} \subseteq doc.meta_keys) THEN FALSE
    ELSE IF ~doc.vs_is_dict THEN FALSE
    ELSE TRUE

check_existing_tafsir_never(metadata, translation_id) == FALSE

check_existing_tafsir(metadata, translation_id) ==
    Cardinality({m \in metadata : m.translation_id = translation_id}) > 0

\* The metadata row inserted without replacing the row of the edition.
import_tafsir_metadata_plain(metadata, doc) ==
    metadata \cup {[translation_id |-> doc.tid, total_verses |-> Len(doc.vs)]}

import_tafsir_metadata(metadata, doc) ==
    {m \in metadata : m.translation_id /= doc.tid}
        \cup {[translation_id |-> doc.tid, total_verses |-> Len(doc.vs)]}

\* A failed batch that is not rolled back: the rows written before the error stay.
import_verses_batch_no_rollback(table, verses_batch, fails) ==
    IF fails = "execute"
    THEN [imported |-> 0, skipped |-> Len(verses_batch),
          table |-> InsertOrReplace(table, Head(verses_batch))]
    ELSE IF fails = "commit"
    THEN [imported |-> Len(verses_batch), skipped |-> Len(verses_batch),
          table |-> InsertMany(table, verses_batch)]
    ELSE [imported |-> Len(verses_batch), skipped |-> 0,
          table |-> InsertMany(table, verses_batch)]

\* How the write of a batch can end: "no" failure, executemany raises
\* ("execute"), or executemany goes through and the commit raises ("commit").
\* imported = cursor.rowcount is assigned between the two, and for executemany
\* rowcount is the number of rows the statements have written.
import_verses_batch(table, verses_batch, fails) ==
    IF fails = "execute"
    THEN [imported |-> 0, skipped |-> Len(verses_batch), table |-> table]
    ELSE IF fails = "commit"
    THEN [imported |-> Len(verses_batch), skipped |-> Len(verses_batch),
          table |-> table]
    ELSE [imported |-> Len(verses_batch), skipped |-> 0,
          table |-> InsertMany(table, verses_batch)]

\* The state of the loop of import_tafsir_verses; batches lists the batches
\* handed to the store so far.
LoopStart(table) ==
    [verses_batch |-> <<>>, total_imported |-> 0, total_skipped |-> 0,
     table |-> table, batches |-> <<>>]

Flush(st, verses_batch, failing) ==
    LET k == Len(st.batches) + 1
        fails == IF k \in DOMAIN failing THEN failing[k] ELSE "no"
        res == import_verses_batch(st.table, verses_batch, fails)
    IN  [verses_batch |-> <<>>,
         total_imported |-> st.total_imported + res.imported,
         total_skipped |-> st.total_skipped + res.skipped,
         table |-> res.table,
         batches |-> Append(st.batches, [rows |-> verses_batch, failed |-> fails /= "no",
                                         imported |-> res.imported])]

TafsirText(verse_data) ==
    IF verse_data.tf.kind = "missing" THEN <<>> ELSE verse_data.tf.s

IsBlank(verse_data) == Strip(TafsirText(verse_data)) = <<>>

\* A mutant of the loop body: blank text is not filtered.
VerseStepNoBlankCheck(st, verse_data, tid, bs, failing) ==
    IF verse_data.tf.kind = "nonstring"
    THEN [st EXCEPT !.total_skipped = @ + 1]
    ELSE LET batch2 == Append(st.verses_batch, Row(verse_data, tid, TafsirText(verse_data)))
         IN  IF Len(batch2) >= bs
             THEN Flush(st, batch2, failing)
             ELSE [st EXCEPT !.verses_batch = batch2]

\* A mutant of the loop body: the batch is written once it is longer than
\* batch_size.
VerseStepLateFlush(st, verse_data, tid, bs, failing) ==
    IF verse_data.tf.kind = "nonstring"
    THEN [st EXCEPT !.total_skipped = @ + 1]
    ELSE IF Strip(TafsirText(verse_data)) = <<>>
    THEN [st EXCEPT !.total_skipped = @ + 1]
    ELSE LET batch2 == Append(st.verses_batch, Row(verse_data, tid, TafsirText(verse_data)))
         IN  IF Len(batch2) > bs
             THEN Flush(st, batch2, failing)
             ELSE [st EXCEPT !.verses_batch = batch2]

\* One iteration of the loop over verses.items().
VerseStep(st, verse_data, tid, bs, failing) ==
    IF verse_data.tf.kind = "nonstring"
    THEN [st EXCEPT !.total_skipped = @ + 1]
    ELSE IF Strip(TafsirText(verse_data)) = <<>>
    THEN [st EXCEPT !.total_skipped = @ + 1]
    ELSE LET batch2 == Append(st.verses_batch, Row(verse_data, tid, TafsirText(verse_data)))
         IN  IF Len(batch2) >= bs
             THEN Flush(st, batch2, failing)
             ELSE [st EXCEPT !.verses_batch = batch2]

RECURSIVE VersesLoop(_, _, _, _, _, _)
VersesLoop(st, vs, i, tid, bs, failing) ==
    IF i > Len(vs) THEN st
    ELSE VersesLoop(VerseStep(st, vs[i], tid, bs, failing), vs, i + 1, tid, bs, failing)

\* The loop without the write of the remaining partial batch.
import_tafsir_verses_no_tail(table, doc, bs, failing) ==
    VersesLoop(LoopStart(table), doc.vs, 1, doc.tid, bs, failing)

import_tafsir_verses(table, doc, bs, failing) ==
    LET st == VersesLoop(LoopStart(table), doc.vs, 1, doc.tid, bs, failing)
    IN  IF st.verses_batch /= <<>>
        THEN Flush(st, st.verses_batch, failing)
        ELSE st

\* No batch write fails.
NoFailure == <<>>

NumBatches(doc, bs) == Len(import_tafsir_verses(EmptyBag, doc, bs, NoFailure).batches)

\* The ways the writes of n batches can fail: the batches that fail, and for
\* each of them where.
Failures(n) == UNION {[S -> {"execute", "commit"}] : S \in SUBSET (1..n)}

LogRow(translation_id, imported, skipped, status) ==
    [translation_id |-> translation_id, verses_imported |-> imported,
     verses_skipped |-> skipped, status |-> status]

\* meta_fails: import_tafsir_metadata raises; failing: the batches whose write
\* fails, each with the place of the failure.
\* errors: what the call adds to stats.errors.
import_tafsir_file(table, metadata, doc, force_reimport, bs, meta_fails, failing) ==
    IF ~validate_tafsir_file(doc)
    THEN [ret |-> FALSE, table |-> table, metadata |-> metadata,
          logged |-> LogRow(0, 0, 0, "failed"), batches |-> <<>>, errors |-> 0]
    ELSE IF ~force_reimport /\ check_existing_tafsir(metadata, doc.tid)
    THEN [ret |-> TRUE, table |-> table, metadata |-> metadata,
          logged |-> LogRow(doc.tid, 0, 0, "skipped"), batches |-> <<>>, errors |-> 0]
    ELSE IF meta_fails
    THEN [ret |-> FALSE, table |-> table, metadata |-> metadata,
          logged |-> LogRow(doc.tid, 0, 0, "failed"), batches |-> <<>>, errors |-> 1]
    ELSE LET st == import_tafsir_verses(table, doc, bs, failing)
         IN  [ret |-> TRUE, table |-> st.table,
              metadata |-> import_tafsir_metadata(metadata, doc),
              logged |-> LogRow(doc.tid, st.total_imported, st.total_skipped, "completed"),
              batches |-> st.batches, errors |-> 0]

NoCall == [op |-> "none"]

NoPrev == [same |-> FALSE, force |-> FALSE]

NoBatchFailed(batches) == \A i \in DOMAIN batches : ~batches[i].failed

\* What a call remembers of the call before it: whether that call imported the
\* same document to the end with no failed batch, and whether it was forced.
Previous(last, doc) ==
    IF /\ last.op = "import"
       /\ last.doc = doc
       /\ last.logged.status = "completed"
       /\ NoBatchFailed(last.batches)
    THEN [same |-> TRUE, force |-> last.force]
    ELSE NoPrev

ImportInit ==
    /\ batch_size \in 1..MaxBatchSize
    /\ quran_translations = EmptyBag
    /\ tafsir_metadata = {}
    /\ call = NoCall

\* The call gets as far as import_tafsir_metadata.
ReachesImport(metadata, doc, force_reimport) ==
    /\ validate_tafsir_file(doc)
    /\ force_reimport \/ ~check_existing_tafsir(metadata, doc.tid)

\* import_tafsir_file(file_path, force_reimport); a write can fail only where
\* the call gets to it.
ImportFile ==
    /\ \E doc \in Docs, force_reimport \in BOOLEAN :
        \E meta_fails \in (IF ReachesImport(tafsir_metadata, doc, force_reimport)
                           THEN BOOLEAN ELSE {FALSE}) :
            \E failing \in (IF ReachesImport(tafsir_metadata, doc, force_reimport)
                               /\ ~meta_fails
                            THEN Failures(NumBatches(doc, batch_size))
                            ELSE {NoFailure}) :
                LET res == import_tafsir_file(quran_translations, tafsir_metadata, doc,
                                              force_reimport, batch_size, meta_fails, failing)
                IN  /\ quran_translations' = res.table
                    /\ tafsir_metadata' = res.metadata
                    /\ call' = [op |-> "import", doc |-> doc, force |-> force_reimport,
                                ret |-> res.ret, logged |-> res.logged,
                                batches |-> res.batches,
                                prev |-> Previous(call, doc)]
    /\ UNCHANGED batch_size
    /\ UNCHANGED <<crawlVars, validateVars, fetchVars, runVars>>

(***************************************************************************)
(* AltafsirScraper: the crawl scheduler.  An edition (tafsir_info) is      *)
(* named by its id; 0 stands for None.  The progress dict has the key      *)
(* "completed_chapters" only once a chapter was completed (has_cc).        *)
(***************************************************************************)
Editions == <<1, 2>>

DefaultProgress ==
    [completed_tafasir |-> <<>>, current_tafsir |-> 0, current_chapter |-> 1,
     has_cc |-> FALSE, completed_chapters |-> <<>>]

\* The progress file on disk.  intact: the file holds a whole JSON document;
\* a file that was opened for writing and not written to its end does not.
NoFile == [exists |-> FALSE, intact |-> FALSE, data |-> DefaultProgress]

PartialFile == [exists |-> TRUE, intact |-> FALSE, data |-> DefaultProgress]

\* A missing file gives the default; so does any exception, which json.load
\* raises on a file that is not a whole document.
load_progress(file) ==
    IF file.exists /\ file.intact THEN file.data ELSE DefaultProgress

\* How open(progress_file, 'w') and json.dump can end: the document is written;
\* open raises and the file stays as it was; open has truncated the file and
\* the dump does not get to its end (an error, or the process is killed).
SaveOutcomes == {"written", "unopened", "partial"}

\* An exception is logged and swallowed.
save_progress(file, data, outcome) ==
    IF outcome = "written" THEN [exists |-> TRUE, intact |-> TRUE, data |-> data]
    ELSE IF outcome = "unopened" THEN file
    ELSE PartialFile

\* progress_data.get("completed_chapters", [])
CompletedChapters(data) == IF data.has_cc THEN data.completed_chapters ELSE <<>>

SkipsChapterNever(data, chapter_) == FALSE

\* chapter in self.progress_data.get("completed_chapters", [])
SkipsChapter(data, chapter_) == chapter_ \in Range(CompletedChapters(data))

SkipsTafsirNever(data, id) == FALSE

\* tafsir_info['id'] in self.progress_data.get("completed_tafasir", [])
SkipsTafsir(data, id) == id \in Range(data.completed_tafasir)

\* The verses a chapter's tasks may deliver: here none of them or all of them.
\* <<c, first, last>> stands for the verses c:first .. c:last.
ChapterResults(chapter_) ==
    {{}, {<<chapter_, 1, QURAN_CHAPTERS[chapter_]>>}}

NoRun == [loaded |-> DefaultProgress, skipped |-> <<>>, crawled |-> <<>>, fetched |-> <<>>]

NoOutput == [e \in Range(Editions) |-> [written |-> FALSE, vs |-> {}]]

Stopped ==
    /\ progress_data = DefaultProgress
    /\ pc = "off"
    /\ todo = <<>>
    /\ tafsir_info = 0
    /\ chapter = 0
    /\ all_verses = {}
    /\ run = NoRun

Stop ==
    /\ progress_data' = DefaultProgress
    /\ pc' = "off"
    /\ todo' = <<>>
    /\ tafsir_info' = 0
    /\ chapter' = 0
    /\ all_verses' = {}
    /\ run' = NoRun

CrawlInit ==
    /\ progress_file = NoFile
    /\ output = NoOutput
    /\ Stopped

\* __init__ and the start of run_scraper: the progress is loaded, the available
\* editions are filtered by the requested ids.
Start ==
    /\ pc = "off"
    /\ \E ids \in (SUBSET Range(Editions)) \ {{}} :
           todo' = SelectSeq(Editions, LAMBDA e : e \in ids)
    /\ progress_data' = load_progress(progress_file)
    /\ run' = [loaded |-> load_progress(progress_file), skipped |-> <<>>,
               crawled |-> <<>>, fetched |-> <<>>]
    /\ pc' = "run"
    /\ UNCHANGED <<progress_file, tafsir_info, chapter, all_verses, output>>
    /\ UNCHANGED <<importVars, validateVars, fetchVars, runVars>>

\* run_scraper: an edition already in completed_tafasir is skipped.
SkipTafsir ==
    /\ pc = "run"
    /\ todo /= <<>>
    /\ SkipsTafsir(progress_data, Head(todo))
    /\ todo' = Tail(todo)
    /\ run' = [run EXCEPT !.skipped = Append(@, Head(todo))]
    /\ UNCHANGED <<progress_file, progress_data, pc, tafsir_info, chapter, all_verses,
                   output>>
    /\ UNCHANGED <<importVars, validateVars, fetchVars, runVars>>

\* run_scraper: current_tafsir is set and saved, scrape_complete_tafsir starts.
BeginTafsir ==
    /\ pc = "run"
    /\ todo /= <<>>
    /\ ~SkipsTafsir(progress_data, Head(todo))
    /\ progress_data' = [progress_data EXCEPT !.current_tafsir = Head(todo)]
    /\ \E outcome \in SaveOutcomes :
           progress_file' = save_progress(progress_file, progress_data', outcome)
    /\ tafsir_info' = Head(todo)
    /\ chapter' = 1
    /\ all_verses' = {}
    /\ run' = [run EXCEPT !.crawled = Append(@, Head(todo))]
    /\ pc' = "chapters"
    /\ UNCHANGED <<todo, output>>
    /\ UNCHANGED <<importVars, validateVars, fetchVars, runVars>>

\* scrape_complete_tafsir: a chapter listed as completed is skipped.
SkipChapter ==
    /\ pc = "chapters"
    /\ chapter <= LastChapter
    /\ SkipsChapter(progress_data, chapter)
    /\ chapter' = chapter + 1
    /\ UNCHANGED <<progress_file, progress_data, pc, todo, tafsir_info, all_verses,
                   output, run>>
    /\ UNCHANGED <<importVars, validateVars, fetchVars, runVars>>

\* scrape_complete_tafsir: current_chapter is saved and scrape_chapter starts the
\* verse tasks of the chapter.
BeginChapter ==
    /\ pc = "chapters"
    /\ chapter <= LastChapter
    /\ ~SkipsChapter(progress_data, chapter)
    /\ progress_data' = [progress_data EXCEPT !.current_chapter = chapter]
    /\ \E outcome \in SaveOutcomes :
           progress_file' = save_progress(progress_file, progress_data', outcome)
    /\ run' = [run EXCEPT !.fetched = Append(@, <<Len(run.crawled), tafsir_info, chapter>>)]
    /\ pc' = "scraping"
    /\ UNCHANGED <<todo, tafsir_info, chapter, all_verses, output>>
    /\ UNCHANGED <<importVars, validateVars, fetchVars, runVars>>

\* scrape_chapter returns; the chapter is appended to completed_chapters and saved.
FinishChapter ==
    /\ pc = "scraping"
    /\ \E chapter_verses \in ChapterResults(chapter) :
           all_verses' = all_verses \cup chapter_verses
    /\ progress_data' = [progress_data EXCEPT
           !.has_cc = TRUE,
           !.completed_chapters = Append(CompletedChapters(progress_data), chapter)]
    /\ \E outcome \in SaveOutcomes :
           progress_file' = save_progress(progress_file, progress_data', outcome)
    /\ chapter' = chapter + 1
    /\ pc' = "chapters"
    /\ UNCHANGED <<todo, tafsir_info, output, run>>
    /\ UNCHANGED <<importVars, validateVars, fetchVars, runVars>>

\* scrape_complete_tafsir returns the document and save_tafsir_data writes it;
\* a write error is logged and swallowed.
WriteDocument ==
    /\ pc = "chapters"
    /\ chapter > LastChapter
    /\ \E ok \in BOOLEAN :
           output' = IF ok
                     THEN [output EXCEPT ![tafsir_info] = [written |-> TRUE, vs |-> all_verses]]
                     ELSE output
    /\ pc' = "written"
    /\ UNCHANGED <<progress_file, progress_data, todo, tafsir_info, chapter, all_verses, run>>
    /\ UNCHANGED <<importVars, validateVars, fetchVars, runVars>>

\* run_scraper: the edition is marked completed, completed_chapters is reset.
MarkCompleted ==
    /\ pc = "written"
    /\ progress_data' = [progress_data EXCEPT
           !.completed_tafasir = Append(@, tafsir_info),
           !.has_cc = TRUE,
           !.completed_chapters = <<>>]
    /\ \E outcome \in SaveOutcomes :
           progress_file' = save_progress(progress_file, progress_data', outcome)
    /\ todo' = Tail(todo)
    /\ tafsir_info' = 0
    /\ chapter' = 0
    /\ all_verses' = {}
    /\ pc' = "run"
    /\ UNCHANGED <<output, run>>
    /\ UNCHANGED <<importVars, validateVars, fetchVars, runVars>>

\* run_scraper: scrape_complete_tafsir raised; the error is logged and the loop
\* continues with the next edition.
TafsirError ==
    /\ pc \in {"chapters", "scraping"}
    /\ todo' = Tail(todo)
    /\ tafsir_info' = 0
    /\ chapter' = 0
    /\ all_verses' = {}
    /\ pc' = "run"
    /\ UNCHANGED <<progress_file, progress_data, output, run>>
    /\ UNCHANGED <<importVars, validateVars, fetchVars, runVars>>

\* run_scraper returns and the process ends.
Finish ==
    /\ pc = "run"
    /\ todo = <<>>
    /\ Stop
    /\ UNCHANGED <<progress_file, output>>
    /\ UNCHANGED <<importVars, validateVars, fetchVars, runVars>>

\* The process is interrupted or killed: what is in memory is lost.
Crash ==
    /\ pc /= "off"
    /\ Stop
    /\ UNCHANGED <<progress_file, output>>
    /\ UNCHANGED <<importVars, validateVars, fetchVars, runVars>>

(***************************************************************************)
(* AltafsirImporter.run_import.  A file is named by its position in Files; *)
(* the positions follow the order of the paths, so a list of positions in  *)
(* increasing order is a sorted list of paths.  The ledger is the progress *)
(* dict of the importer; its key "last_file" is never written and is left  *)
(* out.  The store can be reached and the writes to import_log go through. *)
(***************************************************************************)
TafsirName1 == <<"t", "a", "f", "s", "i", "r", "_", "1", ".", "j", "s", "o", "n">>

TafsirName2 == <<"t", "a", "f", "s", "i", "r", "_", "2", ".", "j", "s", "o", "n">>

IntegrationName == <<"i", "n", "t", "e", "g", "r", "a", "t", "i", "o", "n", "_",
                     "t", "e", "s", "t", ".", "j", "s", "o", "n">>

OneVerse == << Verse(1, 1, Str(TextA)) >>

\* What is on disk: a directory "data" with a valid document and one that has
\* no "vs", and a directory "temp" with a valid document under another name.
Files ==
    << [dir |-> "data", name |-> TafsirName1, doc |-> Document(1, OneVerse)],
       [dir |-> "data", name |-> TafsirName2,
        doc |-> [Document(2, OneVerse) EXCEPT !.top = @ \ {"vs"}]],
       [dir |-> "temp", name |-> IntegrationName, doc |-> Document(2, OneVerse)] >>

\* The input_path argument: a directory, a file, or a path that does not exist.
Inputs ==
    {[kind |-> "dir", dir |-> d, file |-> 0] : d \in {"data", "temp"}}
    \cup {[kind |-> "file", dir |-> "temp", file |-> 3]}
    \cup {[kind |-> "missing", dir |-> "none", file |-> 0]}

\* pattern "tafsir_*.json"
Pattern == [prefix |-> <<"t", "a", "f", "s", "i", "r", "_">>,
            suffix |-> <<".", "j", "s", "o", "n">>]

\* Path.glob(pattern) on a name: the name starts with the part before the star
\* and ends with the part after it.
Matches(name, pattern) ==
    /\ Len(name) >= Len(pattern.prefix) + Len(pattern.suffix)
    /\ SubSeq(name, 1, Len(pattern.prefix)) = pattern.prefix
    /\ SubSeq(name, Len(name) - Len(pattern.suffix) + 1, Len(name)) = pattern.suffix

find_tafsir_files(input) ==
    IF input.kind = "missing" THEN <<>>
    ELSE IF input.kind = "file" THEN <<input.file>>
    ELSE SelectSeq([i \in DOMAIN Files |-> i],
                   LAMBDA f : Files[f].dir = input.dir /\ Matches(Files[f].name, Pattern))

DefaultLedger == [processed_files |-> <<>>, failed_files |-> <<>>]

NoLedgerFile == [exists |-> FALSE, intact |-> FALSE, data |-> DefaultLedger]

PartialLedgerFile == [exists |-> TRUE, intact |-> FALSE, data |-> DefaultLedger]

\* AltafsirImporter.load_progress
importer_load_progress(file) ==
    IF file.exists /\ file.intact THEN file.data ELSE DefaultLedger

\* AltafsirImporter.save_progress: an exception is logged and swallowed.
importer_save_progress(file, data, outcome) ==
    IF outcome = "written" THEN [exists |-> TRUE, intact |-> TRUE, data |-> data]
    ELSE IF outcome = "unopened" THEN file
    ELSE PartialLedgerFile

\* os.remove(self.progress_file) if the file exists
cleanup_progress(file) == NoLedgerFile

BypassesNever(data, file_path, force_reimport) == FALSE

\* str(file_path) in processed_files, and not force_reimport
Bypasses(data, file_path, force_reimport) ==
    file_path \in Range(data.processed_files) /\ ~force_reimport

\* A log that keeps one row per file.
log_import_result_upsert(log, file_path, row) ==
    Append(SelectSeq(log, LAMBDA r : r.file_path /= file_path),
           [file_path |-> file_path, translation_id |-> row.translation_id,
            verses_imported |-> row.verses_imported,
            verses_skipped |-> row.verses_skipped, status |-> row.status])

\* INSERT INTO import_log
log_import_result(log, file_path, row) ==
    Append(log, [file_path |-> file_path, translation_id |-> row.translation_id,
                 verses_imported |-> row.verses_imported,
                 verses_skipped |-> row.verses_skipped, status |-> row.status])

NoArgs == [input |-> [kind |-> "missing", dir |-> "none", file |-> 0],
           force_reimport |-> FALSE, cleanup |-> FALSE]

NoStats == [errors |-> 0, processed_files |-> 0]

\* The importer process is not running: nothing is in memory.
RunStopped ==
    /\ import_progress_data = DefaultLedger
    /\ rpc = "off"
    /\ tafsir_files = <<>>
    /\ stats = NoStats

RunStop ==
    /\ import_progress_data' = DefaultLedger
    /\ rpc' = "off"
    /\ tafsir_files' = <<>>
    /\ stats' = NoStats

RunInit ==
    /\ import_progress_file = NoLedgerFile
    /\ RunStopped
    /\ args = NoArgs
    /\ import_log = <<>>
    /\ steps = <<>>
    /\ result = "none"
    /\ runs = 0
    /\ interrupted = {}

\* __init__ and the start of run_import: the ledger is loaded and the files are
\* looked up; with no file run_import returns False.
RunStart ==
    /\ rpc = "off"
    /\ runs < MaxRuns
    /\ runs' = runs + 1
    /\ \E input \in Inputs, force_reimport \in BOOLEAN, cleanup \in BOOLEAN :
           /\ args' = [input |-> input, force_reimport |-> force_reimport,
                       cleanup |-> cleanup]
           /\ steps' = <<>>
           /\ IF find_tafsir_files(input) = <<>>
              THEN /\ result' = "False"
                   /\ RunStop
              ELSE /\ result' = "none"
                   /\ import_progress_data' = importer_load_progress(import_progress_file)
                   /\ rpc' = "loop"
                   /\ tafsir_files' = find_tafsir_files(input)
                   /\ stats' = NoStats
    /\ UNCHANGED <<import_progress_file, import_log, interrupted>>
    /\ UNCHANGED <<importVars, crawlVars, validateVars, fetchVars>>

\* The loop of run_import on a file of the processed list: continue.
BypassFile ==
    /\ rpc = "loop"
    /\ tafsir_files /= <<>>
    /\ Bypasses(import_progress_data, Head(tafsir_files), args.force_reimport)
    /\ stats' = [stats EXCEPT !.processed_files = @ + 1]
    /\ steps' = Append(steps, [file_path |-> Head(tafsir_files), ret |-> "bypassed"])
    /\ tafsir_files' = Tail(tafsir_files)
    /\ UNCHANGED <<import_progress_file, import_progress_data, rpc, args, import_log,
                   result, runs, interrupted>>
    /\ UNCHANGED <<importVars, crawlVars, validateVars, fetchVars>>

\* The loop of run_import on any other file: import_tafsir_file, the path is
\* appended to processed_files or to failed_files, save_progress.
ImportNext ==
    /\ rpc = "loop"
    /\ tafsir_files /= <<>>
    /\ ~Bypasses(import_progress_data, Head(tafsir_files), args.force_reimport)
    /\ LET file_path == Head(tafsir_files)
           doc == Files[file_path].doc
           reaches == ReachesImport(tafsir_metadata, doc, args.force_reimport)
       IN  \E meta_fails \in (IF reaches THEN BOOLEAN ELSE {FALSE}) :
           \E failing \in (IF reaches /\ ~meta_fails
                           THEN Failures(NumBatches(doc, batch_size))
                           ELSE {NoFailure}) :
           \E outcome \in SaveOutcomes :
               LET res == import_tafsir_file(quran_translations, tafsir_metadata, doc,
                                             args.force_reimport, batch_size,
                                             meta_fails, failing)
               IN  /\ quran_translations' = res.table
                   /\ tafsir_metadata' = res.metadata
                   /\ import_log' = log_import_result(import_log, file_path, res.logged)
                   /\ import_progress_data' =
                          IF res.ret
                          THEN [import_progress_data EXCEPT
                                    !.processed_files = Append(@, file_path)]
                          ELSE [import_progress_data EXCEPT
                                    !.failed_files = Append(@, file_path)]
                   /\ import_progress_file' =
                          importer_save_progress(import_progress_file,
                                                 import_progress_data', outcome)
                   /\ stats' = [errors |-> stats.errors + res.errors,
                                processed_files |-> stats.processed_files + 1]
                   /\ steps' = Append(steps, [file_path |-> file_path,
                                              ret |-> IF res.ret THEN "True" ELSE "False"])
                   /\ interrupted' = IF res.logged.status = "completed"
                                      THEN interrupted \ {file_path}
                                      ELSE interrupted
    /\ tafsir_files' = Tail(tafsir_files)
    /\ UNCHANGED <<batch_size, call, rpc, args, result, runs>>
    /\ UNCHANGED <<crawlVars, validateVars, fetchVars>>

\* The end of run_import: the ledger is removed if cleanup is set and
\* stats.errors is 0; run_import returns True and the process ends.
RunEnd ==
    /\ rpc = "loop"
    /\ tafsir_files = <<>>
    /\ import_progress_file' =
           IF args.cleanup /\ stats.errors = 0
           THEN cleanup_progress(import_progress_file)
           ELSE import_progress_file
    /\ result' = "True"
    /\ RunStop
    /\ UNCHANGED <<args, import_log, steps, runs, interrupted>>
    /\ UNCHANGED <<importVars, crawlVars, validateVars, fetchVars>>

\* The importer process is interrupted or killed in the loop.
RunCrash ==
    /\ rpc = "loop"
    /\ result' = "killed"
    /\ RunStop
    /\ UNCHANGED <<import_progress_file, args, import_log, steps, runs, interrupted>>
    /\ UNCHANGED <<importVars, crawlVars, validateVars, fetchVars>>

\* The table after the writes of the first k of the batches have been committed.
RECURSIVE CommitFirst(_, _, _)
CommitFirst(table, batches, k) ==
    IF k = 0 \/ batches = <<>> THEN table
    ELSE CommitFirst(InsertMany(table, Head(batches).rows), Tail(batches), k - 1)

\* The importer process is killed inside import_tafsir_file, after
\* import_tafsir_metadata has committed the metadata row and after k batches of
\* import_tafsir_verses have been committed: no row of import_log is written,
\* the ledger is neither changed nor saved.
ImportKilled ==
    /\ rpc = "loop"
    /\ tafsir_files /= <<>>
    /\ ~Bypasses(import_progress_data, Head(tafsir_files), args.force_reimport)
    /\ LET file_path == Head(tafsir_files)
           doc == Files[file_path].doc
       IN  /\ ReachesImport(tafsir_metadata, doc, args.force_reimport)
           /\ \E k \in 0..NumBatches(doc, batch_size) :
                  /\ tafsir_metadata' = import_tafsir_metadata(tafsir_metadata, doc)
                  /\ quran_translations' =
                         CommitFirst(quran_translations,
                                     import_tafsir_verses(quran_translations, doc,
                                                          batch_size, NoFailure).batches,
                                     k)
           /\ interrupted' = interrupted \cup {file_path}
    /\ result' = "killed"
    /\ RunStop
    /\ UNCHANGED <<batch_size, call, import_progress_file, args, import_log, steps, runs>>
    /\ UNCHANGED <<crawlVars, validateVars, fetchVars>>

(***************************************************************************)
(* validate_verse_reference applied to an argument pair.                   *)
(***************************************************************************)
ValidateInit ==
    /\ vChapter \in MinArg..MaxChapterArg
    /\ vVerse \in MinArg..MaxVerseArg
    /\ vResult = [called |-> FALSE, config |-> FALSE, scraper |-> FALSE]

\* Both validators are applied to the pair.
Validate ==
    /\ ~vResult.called
    /\ vResult' = [called |-> TRUE,
                   config |-> validate_verse_reference(vChapter, vVerse),
                   scraper |-> scraper_validate_verse_reference(vChapter, vVerse)]
    /\ UNCHANGED <<vChapter, vVerse>>
    /\ UNCHANGED <<importVars, crawlVars, fetchVars, runVars>>

ValidateIdle ==
    /\ vChapter = 0
    /\ vVerse = 0
    /\ vResult = [called |-> FALSE, config |-> FALSE, scraper |-> FALSE]

(***************************************************************************)
(* AltafsirScraper: scrape_chapter and its verse tasks.  scrape_chapter    *)
(* creates one scrape_verse_tafsir task per verse of the chapter and       *)
(* gathers them; the tasks interleave at their awaits.  Task v is the task *)
(* of verse v.                                                             *)
(***************************************************************************)
DefaultMaxRetries == 3

\* The chapter scrape_chapter is applied to here: one with 3 verses.
FetchChapters == {108}

\* What a GET can end with: a status, or an exception (timeout or other).
Outcomes == {"200", "404", "500", "timeout", "error"}

\* What the page of a verse can hold: a tafsir text, no text, or a page on
\* which the extraction raises.
Pages == {"text", "empty", "broken"}

\* status: what the last GET ended with; page: the page it delivered; fetched:
\* what fetch_with_retry returned; result: what the task returned.
NewTask == [pc |-> "new", attempt |-> 0, trace |-> <<>>, status |-> "none",
            page |-> "none", ended |-> "no", fetched |-> "None", result |-> "None"]

Event(ev, attempt, secs) == [ev |-> ev, attempt |-> attempt, secs |-> secs]

AcquiresAlways(value) == TRUE

\* asyncio.Semaphore: acquire goes through only while the value is positive.
Acquires(value) == value > 0

wait_time_linear(attempt) == 2 * attempt

\* wait_time = 2 ** attempt
wait_time(attempt) == 2 ^ attempt

\* A semaphore that is given back only by a call that returns content.
ReleaseOnContent(value, t) ==
    IF t.pc = "done" /\ t.ended = "ok" THEN value + 1 ELSE value

\* async with self.semaphore: the slot is given back when fetch_with_retry
\* leaves the block, whatever it returns.
Release(value, t) == IF t.pc = "done" THEN value + 1 ELSE value

\* if attempt < max_retries - 1
Retries(attempt, retries) == attempt < retries - 1

\* scrape_verse_tafsir after fetch_with_retry returned content: the record built
\* from the page, or None.
Extract(page) == IF page = "text" THEN "verse" ELSE "None"

\* The loop with 404 handled like any other failed attempt.
AfterGetRetrying404(t, status, page, retries) ==
    IF status = "200"
    THEN [t EXCEPT !.pc = "done", !.ended = "ok", !.fetched = "content",
                   !.result = Extract(page)]
    ELSE IF Retries(t.attempt, retries)
    THEN [t EXCEPT !.pc = "backoff"]
    ELSE [t EXCEPT !.pc = "done", !.ended = "exhausted", !.fetched = "None",
                   !.result = "None"]

\* The task after a GET that ends the loop of fetch_with_retry: 200 returns the
\* content, 404 returns None, a last failed attempt returns None.
AfterGet(t, status, page, retries) ==
    IF status = "200"
    THEN [t EXCEPT !.pc = "done", !.ended = "ok", !.fetched = "content",
                   !.result = Extract(page)]
    ELSE IF status = "404"
    THEN [t EXCEPT !.pc = "done", !.ended = "not_found", !.fetched = "None",
                   !.result = "None"]
    ELSE IF Retries(t.attempt, retries)
    THEN [t EXCEPT !.pc = "backoff"]
    ELSE [t EXCEPT !.pc = "done", !.ended = "exhausted", !.fetched = "None",
                   !.result = "None"]

FetchInit ==
    /\ max_concurrent \in 1..MaxConcurrent
    /\ max_retries \in 1..DefaultMaxRetries
    /\ semaphore = max_concurrent
    /\ fChapter \in FetchChapters
    /\ tasks = [v \in 1..QURAN_CHAPTERS[fChapter] |-> NewTask]
    /\ verses_data = [returned |-> FALSE, keys |-> {}, vs |-> <<>>]

\* A task raises before it calls fetch_with_retry; gather keeps the exception as
\* the task's result.
TaskRaises ==
    /\ \E v \in DOMAIN tasks :
           /\ tasks[v].pc = "new"
           /\ tasks' = [tasks EXCEPT ![v] = [@ EXCEPT !.pc = "done", !.ended = "raised",
                                                     !.result = "Exception"]]
    /\ UNCHANGED <<max_concurrent, max_retries, semaphore, fChapter, verses_data>>
    /\ UNCHANGED <<importVars, crawlVars, validateVars, runVars>>

\* async with self.semaphore
Acquire ==
    /\ \E v \in DOMAIN tasks :
           /\ tasks[v].pc = "new"
           /\ scraper_validate_verse_reference(fChapter, v)
           /\ Acquires(semaphore)
           /\ tasks' = [tasks EXCEPT ![v] = [@ EXCEPT !.pc = "delay"]]
    /\ semaphore' = semaphore - 1
    /\ UNCHANGED <<max_concurrent, max_retries, fChapter, verses_data>>
    /\ UNCHANGED <<importVars, crawlVars, validateVars, runVars>>

\* The delay paid before the first attempt only.
DelayOnce ==
    /\ \E v \in DOMAIN tasks :
           /\ tasks[v].pc = "delay"
           /\ tasks' = [tasks EXCEPT ![v] = [@ EXCEPT
                  !.pc = "get",
                  !.trace = IF tasks[v].attempt = 0
                            THEN Append(@, Event("delay", tasks[v].attempt, 0))
                            ELSE @]]
    /\ UNCHANGED <<max_concurrent, max_retries, semaphore, fChapter, verses_data>>
    /\ UNCHANGED <<importVars, crawlVars, validateVars, runVars>>

\* await asyncio.sleep(self.delay)
Delay ==
    /\ \E v \in DOMAIN tasks :
           /\ tasks[v].pc = "delay"
           /\ tasks' = [tasks EXCEPT ![v] = [@ EXCEPT
                  !.pc = "get",
                  !.trace = Append(@, Event("delay", tasks[v].attempt, 0))]]
    /\ UNCHANGED <<max_concurrent, max_retries, semaphore, fChapter, verses_data>>
    /\ UNCHANGED <<importVars, crawlVars, validateVars, runVars>>

\* self.session.get(url) and what follows it without a wait; the semaphore is
\* released when fetch_with_retry returns.
Get ==
    /\ \E v \in DOMAIN tasks :
           /\ tasks[v].pc = "get"
           /\ \E status \in Outcomes :
                  \E page \in (IF status = "200" THEN Pages ELSE {"empty"}) :
                      LET got == [tasks[v] EXCEPT
                                     !.trace = Append(@, Event("get", tasks[v].attempt, 0)),
                                     !.status = status,
                                     !.page = IF status = "200" THEN page ELSE "none"]
                          t2 == AfterGet(got, status, page, max_retries)
                      IN  /\ tasks' = [tasks EXCEPT ![v] = t2]
                          /\ semaphore' = Release(semaphore, t2)
    /\ UNCHANGED <<max_concurrent, max_retries, fChapter, verses_data>>
    /\ UNCHANGED <<importVars, crawlVars, validateVars, runVars>>

\* await asyncio.sleep(wait_time), then the next attempt
Backoff ==
    /\ \E v \in DOMAIN tasks :
           /\ tasks[v].pc = "backoff"
           /\ tasks' = [tasks EXCEPT ![v] = [@ EXCEPT
                  !.pc = "delay",
                  !.attempt = @ + 1,
                  !.trace = Append(@, Event("backoff", tasks[v].attempt,
                                            wait_time(tasks[v].attempt)))]]
    /\ UNCHANGED <<max_concurrent, max_retries, semaphore, fChapter, verses_data>>
    /\ UNCHANGED <<importVars, crawlVars, validateVars, runVars>>

\* asdict(VerseData(v=f"{chapter}:{verse}", c=chapter, n=verse, ...)): the fields
\* of the record of a verse that locate it.
VerseData(chapter_, verse_) ==
    [v |-> FormatKey(chapter_, verse_), c |-> chapter_, n |-> verse_]

CollectAll(results) == DOMAIN results

\* The loop over the gathered results: exceptions and None are left out.
Collect(results) ==
    {v \in DOMAIN results : results[v].result \notin {"Exception", "None"}}

\* asyncio.gather returns when every task is done; scrape_chapter returns
\* verses_data.
Join ==
    /\ ~verses_data.returned
    /\ \A v \in DOMAIN tasks : tasks[v].pc = "done"
    /\ verses_data' =
           LET keys == {FormatKey(fChapter, v) : v \in Collect(tasks)}
           IN  [returned |-> TRUE,
                keys |-> keys,
                vs |-> [key \in keys |->
                           VerseData(fChapter,
                                     CHOOSE v \in Collect(tasks) :
                                         FormatKey(fChapter, v) = key)]]
    /\ UNCHANGED <<max_concurrent, max_retries, semaphore, fChapter, tasks>>
    /\ UNCHANGED <<importVars, crawlVars, validateVars, runVars>>

FetchIdle ==
    /\ max_concurrent = 1
    /\ max_retries = 1
    /\ semaphore = 1
    /\ fChapter = 0
    /\ tasks = <<>>
    /\ verses_data = [returned |-> FALSE, keys |-> {}, vs |-> <<>>]

(***************************************************************************)
(* Specifications.                                                         *)
(***************************************************************************)
ImportIdle ==
    /\ batch_size = 1
    /\ quran_translations = EmptyBag
    /\ tafsir_metadata = {}
    /\ call = NoCall

Init == ImportInit /\ CrawlInit /\ ValidateIdle /\ FetchIdle /\ RunInit

Next == ImportFile

Spec == Init /\ [][Next]_vars

InitCrawl == ImportIdle /\ CrawlInit /\ ValidateIdle /\ FetchIdle /\ RunInit

CrawlNext ==
    \/ Start
    \/ SkipTafsir
    \/ BeginTafsir
    \/ SkipChapter
    \/ BeginChapter
    \/ FinishChapter
    \/ WriteDocument
    \/ MarkCompleted
    \/ TafsirError
    \/ Finish
    \/ Crash

SpecCrawl == InitCrawl /\ [][CrawlNext]_vars

InitValidate == ImportIdle /\ CrawlInit /\ ValidateInit /\ FetchIdle /\ RunInit

ValidateNext == Validate

SpecValidate == InitValidate /\ [][ValidateNext]_vars

InitFetch == ImportIdle /\ CrawlInit /\ ValidateIdle /\ FetchInit /\ RunInit

FetchNext ==
    \/ TaskRaises
    \/ Acquire
    \/ Delay
    \/ Get
    \/ Backoff
    \/ Join

SpecFetch == InitFetch /\ [][FetchNext]_vars

\* The event loop runs a task that is ready, and every GET returns or times
\* out: a step that can be taken is taken.
SpecFetchLive == InitFetch /\ [][FetchNext]_vars /\ WF_vars(FetchNext)

InitRun == ImportInit /\ CrawlInit /\ ValidateIdle /\ FetchIdle /\ RunInit

RunNext ==
    \/ RunStart
    \/ BypassFile
    \/ ImportNext
    \/ RunEnd
    \/ RunCrash
    \/ ImportKilled

SpecRun == InitRun /\ [][RunNext]_vars

(***************************************************************************)
(* Properties of the verse reference validator.                            *)
(***************************************************************************)

\* C10: validate_verse_reference(chapter, verse) is true exactly when
\* 1 <= chapter <= 114 and 1 <= verse <= VERSE_COUNTS[chapter], over the table of
\* 114 entries; every other pair is rejected, none is clamped into range.
C10_ValidateExact ==
    /\ Len(VERSE_COUNTS) = 114
    /\ vResult.called =>
           (vResult.config <=>
               /\ 1 <= vChapter /\ vChapter <= 114
               /\ 1 <= vVerse /\ vVerse <= VERSE_COUNTS[vChapter])
    /\ vResult.called /\ <<vChapter, vVerse>> \in {<<1, 7>>, <<114, 6>>, <<2, 286>>}
           => vResult.config
    /\ vResult.called /\ <<vChapter, vVerse>> \in {<<1, 8>>, <<1, 0>>, <<0, 1>>, <<115, 1>>}
           => ~vResult.config

\* A verse one past the end of chapter 1 was given and rejected.
C10_Witness ==
    vResult.called /\ vChapter = 1 /\ vVerse = 8 /\ ~vResult.config

(***************************************************************************)
(* Properties of the importer.  A property of one call is stated over a    *)
(* step: the unprimed tables are the store before the call, the primed     *)
(* ones and call' the store after it and what the call did.                *)
(***************************************************************************)
Status == call.logged.status

Keys(rows) == {rows[i].verse_key : i \in DOMAIN rows}

RECURSIVE SumLen(_, _)
SumLen(batches, failed) ==
    IF batches = <<>> THEN 0
    ELSE (IF Head(batches).failed = failed THEN Len(Head(batches).rows) ELSE 0)
             + SumLen(Tail(batches), failed)

\* The entries of the document whose tafsir text is a blank string or absent.
BlankEntries(doc) ==
    {i \in DOMAIN doc.vs :
        /\ doc.vs[i].tf.kind \in {"str", "missing"}
        /\ \A j \in DOMAIN doc.vs[i].tf.s : doc.vs[i].tf.s[j] \in Whitespace}

\* Every entry has a valid verse key and a text with something in it.
AllValidNonBlank(doc) ==
    \A i \in DOMAIN doc.vs :
        /\ ValidKey(doc.vs[i].key)
        /\ doc.vs[i].tf.kind = "str"
        /\ \E j \in DOMAIN doc.vs[i].tf.s : doc.vs[i].tf.s[j] \notin Whitespace

\* The table holds exactly one row for each entry of the document, with its text.
DocRowsPresent(table, doc) ==
    /\ \A i \in DOMAIN doc.vs :
           CopiesIn(Row(doc.vs[i], doc.tid, doc.vs[i].tf.s), table) = 1
    /\ \A r \in RowsOf(table, doc.tid) :
           r.verse_key \in {doc.vs[i].key : i \in DOMAIN doc.vs} =>
               \E i \in DOMAIN doc.vs : r = Row(doc.vs[i], doc.tid, doc.vs[i].tf.s)

HasKeys(doc) ==
    /\ {"meta", "chs", "vs"} \subseteq doc.top
    /\ {"tid", "tn", "lang"} \subseteq doc.meta_keys

HasMetadataRow(metadata, tid) == \E m \in metadata : m.translation_id = tid

\* C2: a call without force on a well-formed document whose edition id already
\* has a metadata row leaves the verse table as it was (no row added, none
\* changed), returns success and logs the document as 'skipped'.
C2_SkipWithoutForce ==
    [][ ( /\ call'.op = "import"
          /\ ~call'.force
          /\ call'.doc.json_ok /\ call'.doc.vs_is_dict /\ HasKeys(call'.doc)
          /\ HasMetadataRow(tafsir_metadata, call'.doc.tid) )
        => /\ quran_translations' = quran_translations
           /\ call'.logged.status = "skipped"
           /\ call'.logged.translation_id = call'.doc.tid
           /\ call'.ret ]_vars

\* The document was imported and then given again without force; importing it
\* again would have written rows, and it was skipped.
C2_Witness ==
    /\ call.op = "import"
    /\ ~call.force
    /\ call.prev.same
    /\ Status = "skipped"
    /\ Len(call.doc.vs) = 3
    /\ RowCount(quran_translations) >= 3

\* C3 as claimed: the same document imported twice with force leaves as many
\* rows after the second import as after the first.
C3_ForceSameCount ==
    [][ ( /\ call.op = "import" /\ call.force /\ Status = "completed"
          /\ call'.op = "import" /\ call'.force /\ call'.doc = call.doc
          /\ call'.logged.status = "completed" )
        => RowCount(quran_translations') = RowCount(quran_translations) ]_vars

\* C3 as amended: the same document imported twice with force leaves as many rows
\* after the second import as after the first when no batch write of the first
\* import failed; in every case the second import removes no row.
C3_ForceSameCountClean ==
    [][ ( /\ call.op = "import" /\ call.force /\ Status = "completed"
          /\ call'.op = "import" /\ call'.force /\ call'.doc = call.doc
          /\ call'.logged.status = "completed" )
        => /\ RowCount(quran_translations') >= RowCount(quran_translations)
           /\ NoBatchFailed(call.batches)
                  => RowCount(quran_translations') = RowCount(quran_translations) ]_vars

\* A document of three verses was imported twice with force, every batch written.
C3_Witness ==
    /\ call.op = "import"
    /\ call.force
    /\ call.prev.same /\ call.prev.force
    /\ Status = "completed"
    /\ NoBatchFailed(call.batches)
    /\ SumLen(call.batches, FALSE) = 3
    /\ RowCount(quran_translations) >= 3

\* C4: no two rows of the verse table share (verse_key, translation_id).
C4_UniqueVerseRows ==
    /\ \A r \in BagToSet(quran_translations) : CopiesIn(r, quran_translations) = 1
    /\ \A r1, r2 \in BagToSet(quran_translations) :
           (r1.verse_key = r2.verse_key /\ r1.translation_id = r2.translation_id)
               => r1 = r2

\* Edition 1 was imported in batches of two with its second batch failed, then
\* imported again with force from a document with another text for verse 1:1;
\* edition 2 holds verse 1:1 as well.
C4_Witness ==
    /\ call.op = "import"
    /\ call.force
    /\ Status = "completed"
    /\ batch_size = 2
    /\ call.doc.tid = 1
    /\ \E r \in RowsOf(quran_translations, 1) :
           r.verse_key = FormatKey(1, 1) /\ r.text = TextB
    /\ HasRow(quran_translations, FormatKey(1, 2), 1)
    /\ ~HasRow(quran_translations, FormatKey(1, 3), 1)
    /\ HasRow(quran_translations, FormatKey(1, 1), 2)

\* C5: when batch writes of a document fail, each failed batch is rolled back
\* (the rows of its keys are what they were before the call), its records are
\* counted as skipped and not as imported, the rows of every other batch are in
\* the store, and the document ends 'completed'.
C5_BatchIsolation ==
    [][ ( /\ call'.op = "import"
          /\ \E i \in DOMAIN call'.batches : call'.batches[i].failed )
        => /\ call'.logged.status = "completed"
           /\ call'.ret
           /\ \A i \in DOMAIN call'.batches :
                  IF call'.batches[i].failed
                  THEN Slice(quran_translations', Keys(call'.batches[i].rows), call'.doc.tid)
                           = Slice(quran_translations, Keys(call'.batches[i].rows), call'.doc.tid)
                  ELSE \A r \in Range(call'.batches[i].rows) :
                           CopiesIn(r, quran_translations') = 1
           /\ call'.logged.verses_imported = SumLen(call'.batches, FALSE)
           /\ call'.logged.verses_skipped =
                  SumLen(call'.batches, TRUE)
                      + Cardinality({i \in DOMAIN call'.doc.vs :
                            \A b \in DOMAIN call'.batches :
                                call'.doc.vs[i].key \notin Keys(call'.batches[b].rows)}) ]_vars

\* C6: a document that lacks one of the keys meta, chs, vs, or one of tid, tn,
\* lang in meta, is rejected: the call returns failure, both tables stay as
\* they were, and the document is logged 'failed'.
C6_StructuralReject ==
    [][ (call'.op = "import" /\ ~HasKeys(call'.doc))
        => /\ ~call'.ret
           /\ call'.logged.status = "failed"
           /\ quran_translations' = quran_translations
           /\ tafsir_metadata' = tafsir_metadata ]_vars

\* A document without "vs" was given with force to a store that holds rows.
C6_Witness ==
    /\ call.op = "import"
    /\ call.force
    /\ "vs" \notin call.doc.top
    /\ ~call.ret
    /\ RowCount(quran_translations) > 0

\* C7 as claimed: an entry whose key is no valid "<chapter>:<verse>" never
\* reaches a batch, and a document imported with no failed batch reports as
\* imported only its entries with a valid key and non-blank text.
C7_BadKeysSkipped ==
    (call.op = "import" /\ Status = "completed")
        => /\ \A i \in DOMAIN call.doc.vs :
                  ~ValidKey(call.doc.vs[i].key)
                      => \A b \in DOMAIN call.batches :
                             call.doc.vs[i].key \notin Keys(call.batches[b].rows)
           /\ NoBatchFailed(call.batches)
                  => call.logged.verses_imported =
                         Cardinality({i \in DOMAIN call.doc.vs :
                             /\ ValidKey(call.doc.vs[i].key)
                             /\ i \notin BlankEntries(call.doc)
                             /\ call.doc.vs[i].tf.kind = "str"})

\* C8 as claimed, for calls none of whose batch writes fails: a document of n
\* valid verses with text reports imported = n, skipped = 0 when it is imported,
\* and imported = 0, skipped = n when it is given again without force.
C8_CountsAsClaimed ==
    (call.op = "import" /\ AllValidNonBlank(call.doc) /\ Len(call.doc.vs) >= 1
         /\ NoBatchFailed(call.batches))
        => /\ Status = "completed"
               => /\ call.logged.verses_imported = Len(call.doc.vs)
                  /\ call.logged.verses_skipped = 0
           /\ (Status = "skipped" /\ call.prev.same)
               => /\ call.logged.verses_imported = 0
                  /\ call.logged.verses_skipped = Len(call.doc.vs)

\* C8 as amended: a document of n valid verses with text, imported with every
\* batch written, reports imported = n, skipped = 0 and has its n rows in the
\* store; given again without force it is logged 'skipped' with imported = 0 and
\* skipped = 0, and its n rows are still in the store.
C8_Counts ==
    (call.op = "import" /\ AllValidNonBlank(call.doc) /\ Len(call.doc.vs) >= 1
         /\ NoBatchFailed(call.batches))
        => /\ Status = "completed"
               => /\ call.logged.verses_imported = Len(call.doc.vs)
                  /\ call.logged.verses_skipped = 0
                  /\ DocRowsPresent(quran_translations, call.doc)
           /\ (Status = "skipped" /\ call.prev.same)
               => /\ call.logged.verses_imported = 0
                  /\ call.logged.verses_skipped = 0
                  /\ ~call.force
                  /\ DocRowsPresent(quran_translations, call.doc)

\* The document of three verses was imported and then given again without force.
C8_Witness ==
    /\ call.op = "import"
    /\ call.doc.vs = FullVs
    /\ ~call.force
    /\ call.prev.same
    /\ Status = "skipped"

\* C9: an entry whose text is empty or only whitespace never reaches a batch,
\* the call writes no row for its key, it is counted as skipped and not as
\* imported, and no row of the store has blank text.
C9_BlankNeverStored ==
    [][ (call'.op = "import")
        => /\ \A i \in BlankEntries(call'.doc) :
                  /\ \A b \in DOMAIN call'.batches :
                         call'.doc.vs[i].key \notin Keys(call'.batches[b].rows)
                  /\ Slice(quran_translations', {call'.doc.vs[i].key}, call'.doc.tid)
                         = Slice(quran_translations, {call'.doc.vs[i].key}, call'.doc.tid)
           /\ call'.logged.status = "completed"
                  => /\ call'.logged.verses_skipped - SumLen(call'.batches, TRUE)
                            >= Cardinality(BlankEntries(call'.doc))
                     /\ call'.logged.verses_imported
                            <= Len(call'.doc.vs) - Cardinality(BlankEntries(call'.doc))
           /\ \A r \in BagToSet(quran_translations') :
                  \E j \in DOMAIN r.text : r.text[j] \notin Whitespace ]_vars

\* A document with a whitespace-only entry and an entry with text was imported:
\* the one is counted as skipped, the other is in the store.
C9_Witness ==
    /\ call.op = "import"
    /\ Status = "completed"
    /\ \E i \in BlankEntries(call.doc) : Len(call.doc.vs[i].tf.s) > 0
    /\ call.logged.verses_imported >= 1
    /\ call.logged.verses_skipped >= 1
    /\ NoBatchFailed(call.batches)

(***************************************************************************)
(* Properties of the crawl.                                                *)
(***************************************************************************)
\* The chapters whose verse tasks the process started for the first edition
\* it crawled, in order.
FirstCrawlFetched ==
    LET f == SelectSeq(run.fetched, LAMBDA x : x[1] = 1)
    IN  [i \in DOMAIN f |-> f[i][3]]

LoadedChapters == Range(CompletedChapters(run.loaded))

\* C1: when the progress loaded at the start lists the chapters S as completed
\* for edition X and the process resumes X, it starts no verse task of a chapter
\* in S, and the first chapter it fetches is the lowest chapter not in S.
C1_Resume ==
    ( /\ pc /= "off"
      /\ run.crawled /= <<>>
      /\ run.crawled[1] = run.loaded.current_tafsir )
    => /\ \A i \in DOMAIN FirstCrawlFetched : FirstCrawlFetched[i] \notin LoadedChapters
       /\ FirstCrawlFetched /= <<>>
              => FirstCrawlFetched[1] = Min((1..LastChapter) \ LoadedChapters)
       /\ (pc = "written" /\ Len(run.crawled) = 1)
              => Range(FirstCrawlFetched) = (1..LastChapter) \ LoadedChapters

\* A process that found chapter 1 completed for the edition it resumed has
\* fetched chapter 2 first.
C1_Witness ==
    /\ pc /= "off"
    /\ run.crawled /= <<>>
    /\ run.crawled[1] = run.loaded.current_tafsir
    /\ LoadedChapters = {1}
    /\ FirstCrawlFetched /= <<>>
    /\ FirstCrawlFetched[1] = 2

(***************************************************************************)
(* Properties of fetch_with_retry and of the verse tasks of a chapter.     *)
(***************************************************************************)
Events(t, ev) == {i \in DOMAIN t.trace : t.trace[i].ev = ev}

TransientFailures == {"500", "timeout", "error"}

\* C11: at every moment the number of fetch_with_retry calls between acquiring
\* and releasing the semaphore, whatever they are doing (waiting the delay,
\* getting, backing off), is at most max_concurrent.
C11_ConcurrencyCap ==
    /\ Cardinality({v \in DOMAIN tasks : tasks[v].pc \in {"delay", "get", "backoff"}})
           <= max_concurrent
    /\ semaphore >= 0

\* As many fetches as allowed are in flight, one of them in its backoff wait,
\* while another task waits for the semaphore.
C11_Witness ==
    /\ max_concurrent = 2
    /\ Cardinality({v \in DOMAIN tasks : tasks[v].pc \in {"delay", "get", "backoff"}}) = 2
    /\ \E v \in DOMAIN tasks : tasks[v].pc = "backoff"
    /\ \E v \in DOMAIN tasks : tasks[v].pc = "new"

\* C12: a fetch_with_retry call makes at most max_retries GET attempts; after a
\* failed attempt (error, timeout, status other than 200 and 404) it makes
\* another one while attempts remain, so a call that gives up has made
\* max_retries attempts; the backoff wait after failed attempt k is 2^k seconds.
C12_RetryAndBackoff ==
    \A v \in DOMAIN tasks :
        LET t == tasks[v]
        IN  /\ Cardinality(Events(t, "get")) <= max_retries
            /\ \A i \in Events(t, "backoff") :
                   /\ t.trace[i].secs = <<1, 2, 4>>[t.trace[i].attempt + 1]
                   /\ i > 1 /\ t.trace[i - 1] = Event("get", t.trace[i].attempt, 0)
            /\ (t.status \in TransientFailures /\ t.pc = "done")
                   => Cardinality(Events(t, "get")) = max_retries
            /\ (t.status \in TransientFailures /\ t.pc /= "done")
                   => /\ t.pc \in {"backoff", "delay", "get"}
                      /\ Cardinality(Events(t, "get")) < max_retries

\* A call with three attempts allowed has failed three times and given up, with
\* waits of 1 and 2 seconds between the attempts.
C12_Witness ==
    /\ max_retries = 3
    /\ \E v \in DOMAIN tasks :
           /\ tasks[v].pc = "done"
           /\ tasks[v].status \in TransientFailures
           /\ Cardinality(Events(tasks[v], "get")) = 3
           /\ {tasks[v].trace[i].secs : i \in Events(tasks[v], "backoff")} = {1, 2}

\* C13: a GET that ends with status 404 ends the call: the call returns at
\* once, and from then on the task makes no attempt and no wait.
C13_NotFoundTerminal ==
    [][ \A v \in DOMAIN tasks :
            /\ (tasks[v].pc = "get" /\ tasks'[v].status = "404")
                   => /\ tasks'[v].pc = "done"
                      /\ tasks'[v].trace = Append(tasks[v].trace,
                                                  Event("get", tasks[v].attempt, 0))
            /\ (tasks[v].status = "404" /\ tasks[v].pc /= "get")
                   => tasks'[v] = tasks[v] ]_vars

\* A call was answered 404 on its second attempt, with a third one allowed.
C13_Witness ==
    /\ max_retries = 3
    /\ \E v \in DOMAIN tasks :
           /\ tasks[v].status = "404"
           /\ tasks[v].attempt = 1
           /\ tasks[v].pc = "done"

\* C14 as claimed: a call that ended on a 404 and a call that used up its
\* attempts on transient failures return different values.
C14_NotFoundDistinct ==
    \A v, w \in DOMAIN tasks :
        ( /\ tasks[v].pc = "done" /\ tasks[v].status = "404"
          /\ tasks[w].pc = "done" /\ tasks[w].status \in TransientFailures )
        => tasks[v].fetched /= tasks[w].fetched

\* C15: every GET of fetch_with_retry, the first and each retry, comes right
\* after the delay wait of the same attempt.
C15_DelayBeforeGet ==
    \A v \in DOMAIN tasks :
        /\ \A i \in Events(tasks[v], "get") :
               /\ i > 1
               /\ tasks[v].trace[i - 1] = Event("delay", tasks[v].trace[i].attempt, 0)
        /\ tasks[v].pc = "get"
               => /\ tasks[v].trace /= <<>>
                  /\ tasks[v].trace[Len(tasks[v].trace)] = Event("delay", tasks[v].attempt, 0)

\* A call has made a retry: backoff wait, delay wait, GET.
C15_Witness ==
    \E v \in DOMAIN tasks :
        \E i \in Events(tasks[v], "get") :
            /\ i > 2
            /\ tasks[v].trace[i - 1].ev = "delay"
            /\ tasks[v].trace[i - 2].ev = "backoff"

\* The verse tasks that delivered a record: the GET returned 200 with a page
\* that holds a tafsir text.
Delivered == {v \in DOMAIN tasks : tasks[v].status = "200" /\ tasks[v].page = "text"}

\* C16: the verses map scrape_chapter returns holds exactly the verses whose
\* task delivered a record; a task that failed (attempts used up, 404, page
\* without text, extraction error, exception in the task) is absent and keeps
\* no other verse out; whatever the tasks ended with, scrape_chapter returns.
C16_VerseFailuresLocal ==
    /\ verses_data.returned
           => verses_data.keys = {FormatKey(fChapter, v) : v \in Delivered}
    /\ ((\A v \in DOMAIN tasks : tasks[v].pc = "done") /\ ~verses_data.returned)
           => ENABLED Join

\* scrape_chapter has returned a map with a verse of a chapter in which one
\* task raised and another ran out of attempts or got a 404.
C16_Witness ==
    /\ verses_data.returned
    /\ verses_data.keys /= {}
    /\ \E v \in DOMAIN tasks : tasks[v].result = "Exception"
    /\ \E v \in DOMAIN tasks : tasks[v].status \in TransientFailures \cup {"404"}

(***************************************************************************)
(* Properties of the crawl scheduler.                                      *)
(***************************************************************************)
\* The chapters whose verse tasks were started in the crawl that is running,
\* in order.
CurrentCrawlFetched ==
    LET f == SelectSeq(run.fetched, LAMBDA x : x[1] = Len(run.crawled))
    IN  [i \in DOMAIN f |-> f[i][3]]

\* What a process that started now would find completed.
PersistedChapters == Range(CompletedChapters(load_progress(progress_file)))

PersistedTafasir == Range(load_progress(progress_file).completed_tafasir)

\* C17 as claimed: while the verse tasks of a chapter run, the chapter is not in
\* the completed-chapters list and none of its verses is in the verses map, and
\* the verse tasks of a chapter run only when every chapter fetched before it in
\* this crawl is in the completed-chapters list of the progress file.
C17_JoinBeforeCheckpoint ==
    pc = "scraping"
        => /\ chapter \notin Range(CompletedChapters(progress_data))
           /\ \A x \in all_verses : x[1] /= chapter
           /\ \A i \in DOMAIN CurrentCrawlFetched :
                  CurrentCrawlFetched[i] /= chapter
                      => CurrentCrawlFetched[i] \in PersistedChapters

\* C18 as claimed: a crawl that is not the resumption of the persisted current
\* edition (it is not the first crawl of the process, or the progress loaded
\* names another edition as current) fetches every chapter of its edition.
C18_ProgressPerEdition ==
    ( /\ pc = "written"
      /\ ~(Len(run.crawled) = 1 /\ run.loaded.current_tafsir = tafsir_info) )
    => Range(CurrentCrawlFetched) = 1..LastChapter

\* C19 as claimed: the progress written when an edition completes has the
\* edition in completed_tafasir, no current edition and no completed chapters.
C19_EditionCompletion ==
    [][ ( /\ pc = "written"
          /\ Len(progress_data'.completed_tafasir) = Len(progress_data.completed_tafasir) + 1
          /\ progress_file'.exists
          /\ progress_file'.intact
          /\ progress_file'.data = progress_data' )
        => /\ tafsir_info \in Range(progress_file'.data.completed_tafasir)
           /\ progress_file'.data.current_tafsir = 0
           /\ CompletedChapters(progress_file'.data) = <<>> ]_vars

\* C20: while the progress file lists an edition as completed, no step starts a
\* crawl of that edition or the verse tasks of one of its chapters, and no step
\* writes its output document.
C20_CompletedSkipped ==
    [][ \A e \in PersistedTafasir :
            /\ tafsir_info' /= tafsir_info => tafsir_info' /= e
            /\ Len(run'.crawled) > Len(run.crawled) => run'.crawled[Len(run'.crawled)] /= e
            /\ Len(run'.fetched) > Len(run.fetched) => run'.fetched[Len(run'.fetched)][2] /= e
            /\ output'[e] = output[e] ]_vars

\* A process that found edition 1 completed in the progress file has skipped
\* it and started the verse tasks of edition 2.
C20_Witness ==
    /\ pc = "scraping"
    /\ 1 \in PersistedTafasir
    /\ 1 \in Range(run.loaded.completed_tafasir)
    /\ run.skipped = <<1>>
    /\ run.crawled = <<2>>
    /\ tafsir_info = 2

(***************************************************************************)
(* C21: every key of the verse map scrape_chapter returns is               *)
(* "<chapter>:<verse>" for a pair that validate_verse_reference accepts,   *)
(* and the record stored under the key carries the same chapter in c, the  *)
(* same verse in n and the same key in v.                                  *)
(***************************************************************************)
C21_KeysMatchRecords ==
    \A key \in DOMAIN verses_data.vs :
        /\ ParseKey(key).ok
        /\ scraper_validate_verse_reference(ParseKey(key).c, ParseKey(key).n)
        /\ verses_data.vs[key].c = ParseKey(key).c
        /\ verses_data.vs[key].n = ParseKey(key).n
        /\ verses_data.vs[key].v = key

\* C21 witness: scrape_chapter returned a map with more than one verse.
C21_Witness ==
    /\ verses_data.returned
    /\ Cardinality(DOMAIN verses_data.vs) >= 2

(***************************************************************************)
(* C22 as claimed: a run does not go on after a save_progress that did not *)
(* persist the checkpoint: whenever a running process changes its progress *)
(* and is still running after the step, the progress file holds what it    *)
(* has in memory.                                                          *)
(***************************************************************************)
C22_WriteFailureFatal ==
    [][ ( /\ pc /= "off"
          /\ pc' /= "off"
          /\ progress_data' /= progress_data )
        => /\ progress_file'.exists
           /\ progress_file'.intact
           /\ progress_file'.data = progress_data' ]_vars

(***************************************************************************)
(* C23 as claimed: the progress file a starting process finds is a whole   *)
(* document written by a completed save_progress, which the process loads  *)
(* as it is; it is never a partial file and is never replaced by the       *)
(* default.                                                                *)
(***************************************************************************)
C23_ConsistentProgress ==
    [][ ( /\ pc = "off"
          /\ pc' /= "off"
          /\ progress_file.exists )
        => /\ progress_file.intact
           /\ run'.loaded = progress_file.data ]_vars

(***************************************************************************)
(* Properties of run_import.                                               *)
(***************************************************************************)
\* The step visits a file of the loop of run_import.
VisitsFile == rpc = "loop" /\ Len(steps') = Len(steps) + 1

LastStep == steps'[Len(steps')]

LastLogged == import_log'[Len(import_log')]

FailedSteps == {i \in DOMAIN steps : steps[i].ret = "False"}

PersistedLedger == importer_load_progress(import_progress_file)

\* C24: a file whose path is in the processed list of the ledger is, without
\* force_reimport, not passed to import_tafsir_file: the step writes nothing to
\* the verse table, the metadata table or import_log; with force_reimport the
\* file is passed to import_tafsir_file, which does not skip it.
C24_LedgerBypass ==
    [][ ( /\ VisitsFile
          /\ Head(tafsir_files) \in Range(import_progress_data.processed_files) )
        => IF ~args.force_reimport
           THEN /\ LastStep.ret = "bypassed"
                /\ quran_translations' = quran_translations
                /\ tafsir_metadata' = tafsir_metadata
                /\ import_log' = import_log
           ELSE /\ LastStep.ret /= "bypassed"
                /\ Len(import_log') = Len(import_log) + 1
                /\ LastLogged.file_path = Head(tafsir_files)
                /\ LastLogged.status /= "skipped" ]_vars

\* C24 witness: a run without force_reimport has gone past a file that the
\* ledger it loaded lists as processed.
C24_Witness ==
    /\ rpc = "loop"
    /\ ~args.force_reimport
    /\ \E i \in DOMAIN steps :
           /\ steps[i].ret = "bypassed"
           /\ steps[i].file_path \in Range(import_progress_data.processed_files)

\* C25 as claimed: while a run is in its loop, and after it was killed there,
\* every file whose import_tafsir_file returned success in this run is in the
\* processed list of the ledger on disk.
C25_LedgerCheckpoint ==
    (rpc = "loop" \/ result = "killed")
        => \A i \in DOMAIN steps :
               steps[i].ret = "True"
                   => steps[i].file_path \in Range(PersistedLedger.processed_files)

\* C26 as claimed: after a run with cleanup in which a document failed, the
\* ledger file exists and lists the document as failed.
C26_LedgerRetention ==
    (result = "True" /\ args.cleanup /\ FailedSteps /= {})
        => /\ import_progress_file.exists
           /\ \A i \in FailedSteps :
                  steps[i].file_path \in Range(PersistedLedger.failed_files)

C29_RunResult ==
    /\ result = "True" => FailedSteps = {}
    /\ (result \in {"True", "False"} /\ FailedSteps /= {}) => result = "False"

\* C30 as claimed: a run_import with force_reimport on a directory has passed
\* every structurally valid document of the directory to import_tafsir_file and
\* has returned True.
C30_FindsAnyName ==
    ( /\ result \in {"True", "False"}
      /\ args.input.kind = "dir"
      /\ args.force_reimport )
    => \A f \in DOMAIN Files :
           (Files[f].dir = args.input.dir /\ validate_tafsir_file(Files[f].doc))
               => /\ result = "True"
                  /\ \E i \in DOMAIN steps :
                         steps[i].file_path = f /\ steps[i].ret /= "bypassed"

(***************************************************************************)
(* Properties of the metadata table.                                       *)
(***************************************************************************)
MetadataRows(tid) == {m \in tafsir_metadata : m.translation_id = tid}

Completed == call.op = "import" /\ call.ret /\ call.logged.status = "completed"

\* C28 as claimed: no edition id has more than one metadata row, and after a
\* completed import of a valid document the metadata table holds exactly one row
\* of its edition id and the verse table holds at least one row.
C28_MetadataAndVerses ==
    /\ \A tid \in {1, 2} : Cardinality(MetadataRows(tid)) <= 1
    /\ Completed
           => /\ Cardinality(MetadataRows(call.doc.tid)) = 1
              /\ RowCount(quran_translations) >= 1

\* C28, amended: no edition id has more than one metadata row; after a completed
\* import of a valid document the metadata table holds exactly one row of its
\* edition id, and the verse table holds at least one row if the import wrote at
\* least one verse.
C28_MetadataKeyed ==
    /\ \A tid \in {1, 2} : Cardinality(MetadataRows(tid)) <= 1
    /\ Completed
           => /\ Cardinality(MetadataRows(call.doc.tid)) = 1
              /\ (\E i \in DOMAIN call.batches : ~call.batches[i].failed)
                     => RowCount(quran_translations) >= 1

\* C28 witness: a forced import of the document that the call before it had
\* imported has completed and has written verses.
C28_Witness ==
    /\ Completed
    /\ call.force
    /\ \E i \in DOMAIN call.batches : ~call.batches[i].failed
    /\ call.prev.same

(***************************************************************************)
(* C31: the validator of the scraper and the standalone validator return   *)
(* the same result for every (chapter, verse) pair, and the two tables     *)
(* hold the same verse count for each of the 114 chapters.                 *)
(***************************************************************************)
C31_ValidatorsAgree ==
    /\ Len(QURAN_CHAPTERS) = 114
    /\ Len(VERSE_COUNTS) = 114
    /\ \A c \in 1..114 : QURAN_CHAPTERS[c] = VERSE_COUNTS[c]
    /\ vResult.called => vResult.scraper = vResult.config

\* C31 witness: both validators were applied to verse 0 of a chapter, which
\* they reject.
C31_Witness ==
    /\ vResult.called
    /\ vChapter = 2
    /\ vVerse = 0
    /\ ~vResult.scraper
    /\ ~vResult.config

(***************************************************************************)
(* C32 as claimed: when a process that resumed an edition from a progress  *)
(* that lists completed chapters writes the document of the edition, the   *)
(* document holds the verses of those chapters too: it does not replace a  *)
(* document written before by one that lacks verses of that document.      *)
(***************************************************************************)
C32_NoVerseLost ==
    [][ ( /\ pc = "chapters"
          /\ pc' = "written"
          /\ run.crawled = <<tafsir_info>>
          /\ run.loaded.current_tafsir = tafsir_info
          /\ LoadedChapters /= {}
          /\ output[tafsir_info].written )
        => /\ output'[tafsir_info].written
           /\ output[tafsir_info].vs \subseteq output'[tafsir_info].vs ]_vars

(***************************************************************************)
(* C33 as claimed: an edition is appended to completed_tafasir only when   *)
(* the document the crawl built was written to the output file.            *)
(***************************************************************************)
C33_CompletedOnlyIfWritten ==
    [][ Len(progress_data'.completed_tafasir) > Len(progress_data.completed_tafasir)
        => /\ output[tafsir_info].written
           /\ output[tafsir_info].vs = all_verses ]_vars

(***************************************************************************)
(* C38 as claimed: an edition whose crawl raised is not added to           *)
(* completed_tafasir by the step that handles the error, and the crawl of  *)
(* the edition that follows it fetches every chapter.                      *)
(***************************************************************************)
C38_EditionFailuresLocal ==
    [][ /\ (pc \in {"chapters", "scraping"} /\ pc' = "run")
            => /\ progress_data'.completed_tafasir = progress_data.completed_tafasir
               /\ todo' = Tail(todo)
        /\ ( /\ pc = "chapters"
              /\ pc' = "written"
              /\ Len(run.crawled) >= 2
              /\ run.crawled[Len(run.crawled) - 1]
                     \notin Range(progress_data.completed_tafasir) )
            => Range(CurrentCrawlFetched) = 1..LastChapter ]_vars

(***************************************************************************)
(* C37: every fetch_with_retry call makes at most max_retries attempts,    *)
(* and the chapter comes to its end: every verse task is done, the join    *)
(* has returned and every semaphore slot is given back, whatever the GETs  *)
(* ended with.                                                             *)
(***************************************************************************)
C37_CrawlTerminates ==
    /\ [](\A v \in DOMAIN tasks : Cardinality(Events(tasks[v], "get")) <= max_retries)
    /\ <>[]( /\ verses_data.returned
             /\ \A v \in DOMAIN tasks : tasks[v].pc = "done"
             /\ semaphore = max_concurrent )

\* C37 witness: the join has returned after a chapter in which one call found
\* nothing, one gave up after its last attempt and one task raised, with one
\* slot only; the slot is free again.
C37_Witness ==
    /\ verses_data.returned
    /\ max_concurrent = 1
    /\ semaphore = 1
    /\ \E v \in DOMAIN tasks : tasks[v].ended = "not_found"
    /\ \E v \in DOMAIN tasks : tasks[v].ended = "exhausted"
    /\ \E v \in DOMAIN tasks : tasks[v].ended = "raised"

(***************************************************************************)
(* C35: count conservation.  For every document logged 'completed' the     *)
(* numbers of imported and of skipped records add up to the number of      *)
(* entries of "vs", whatever the batch size, the blank or malformed        *)
(* entries and the batches whose write fails: no record is counted twice   *)
(* and none is left uncounted.                                             *)
(***************************************************************************)
C35_CountConservation ==
    Completed
        => call.logged.verses_imported + call.logged.verses_skipped = Len(call.doc.vs)

(***************************************************************************)
(* C36: ledger consistency.  After any sequence of runs no path is at the  *)
(* same time in the processed list and in the failed list of the ledger,   *)
(* and no path occurs more than once in the processed list; stated of the  *)
(* ledger of the process and of the ledger read back from the file.        *)
(***************************************************************************)
LedgerConsistent(ledger) ==
    /\ Range(ledger.processed_files) \cap Range(ledger.failed_files) = {}
    /\ \A i, j \in DOMAIN ledger.processed_files :
           ledger.processed_files[i] = ledger.processed_files[j] => i = j

C36_LedgerConsistency ==
    /\ LedgerConsistent(import_progress_data)
    /\ LedgerConsistent(PersistedLedger)

(***************************************************************************)
(* C34: the load is resumable.  When the process has ended inside the      *)
(* import of a document, after the metadata row of its edition was         *)
(* committed, and a later run_import without force has dealt with the      *)
(* document without reporting a failure, every verse of the document with  *)
(* text has its row in the store.                                          *)
(***************************************************************************)
C34_Resumable ==
    [][ ( /\ VisitsFile
          /\ ~args.force_reimport
          /\ LastStep.file_path \in interrupted
          /\ LastStep.ret /= "False" )
        => DocRowsPresent(quran_translations', Files[LastStep.file_path].doc) ]_vars

(***************************************************************************)
(* C39: batching.  The batches handed to the store, put one after the      *)
(* other in the order of their writes, are the records of the document     *)
(* that have non-blank text, each once and in document order; no batch     *)
(* holds more than batch_size records, only the last one may hold fewer,   *)
(* and all of them are written when the outcome of the document is logged. *)
(***************************************************************************)
HasText(verse_data) == verse_data.tf.kind = "str" /\ ~IsBlank(verse_data)

RECURSIVE RecordsWithText(_, _)
RecordsWithText(vs, tid) ==
    IF vs = <<>> THEN <<>>
    ELSE (IF HasText(Head(vs))
          THEN << Row(Head(vs), tid, TafsirText(Head(vs))) >>
          ELSE <<>>) \o RecordsWithText(Tail(vs), tid)

RECURSIVE Handed(_)
Handed(batches) ==
    IF batches = <<>> THEN <<>>
    ELSE Head(batches).rows \o Handed(Tail(batches))

C39_Batching ==
    (call.op = "import" /\ Status = "completed")
        => /\ Handed(call.batches) = RecordsWithText(call.doc.vs, call.doc.tid)
           /\ \A b \in DOMAIN call.batches :
                  /\ Len(call.batches[b].rows) >= 1
                  /\ Len(call.batches[b].rows) <= batch_size
                  /\ b < Len(call.batches) => Len(call.batches[b].rows) = batch_size

\* C39 witness: the document of three verses was imported in batches of two;
\* the write of the full batch failed, the partial batch with the last verse
\* was written after it.
C39_Witness ==
    /\ call.op = "import"
    /\ Status = "completed"
    /\ call.doc.vs = FullVs
    /\ batch_size = 2
    /\ Len(call.batches) = 2
    /\ call.batches[1].failed
    /\ Len(call.batches[2].rows) = 1
    /\ HasRow(quran_translations, FormatKey(1, 3), call.doc.tid)

(***************************************************************************)
(* C40: the batch size does not change the result.  When a document is     *)
(* imported into an empty store and no batch write fails, the verse rows   *)
(* in the store and the imported and skipped counts are what the import    *)
(* of the document with any other batch size yields.  The hash of a row is *)
(* the MD5 of its text, so rows of the same text have the same hash.       *)
(***************************************************************************)
BatchSizes == 1..(MaxBatchSize + 1)

C40_BatchSizeIrrelevant ==
    [][ ( /\ call'.op = "import"
          /\ call'.logged.status = "completed"
          /\ NoBatchFailed(call'.batches)
          /\ quran_translations = EmptyBag )
        => \A B \in BatchSizes :
               LET st == import_tafsir_verses(EmptyBag, call'.doc, B, NoFailure)
               IN  /\ st.table = quran_translations'
                   /\ st.total_imported = call'.logged.verses_imported
                   /\ st.total_skipped = call'.logged.verses_skipped ]_vars

\* C40 witness: the document of three verses was imported in two batches, no
\* write failed, and its three rows are the store.
C40_Witness ==
    /\ call.op = "import"
    /\ Status = "completed"
    /\ call.doc.vs = FullVs
    /\ Len(call.batches) = 2
    /\ NoBatchFailed(call.batches)
    /\ RowCount(quran_translations) = 3
    /\ call.logged.verses_imported = 3

====
